---- MODULE Spec2Model ----
(***************************************************************************)
(* A model of MinecraftWebhook: the HTTP routing (src/main.rs), the        *)
(* blinded webhook lookup and the webhook handler (src/minecraft/mod.rs)   *)
(* and the RCON client (src/minecraft/rcon.rs).                            *)
(*                                                                         *)
(* Byte strings (request methods and targets, webhook names, commands,     *)
(* RCON messages) are sequences of integers 0..255.  A Rust `str`/`String` *)
(* is modelled by its UTF-8 bytes.  `i32` values are integers in           *)
(* I32Min..I32Max; the arithmetic below never leaves that range.           *)
(***************************************************************************)
EXTENDS Integers, Sequences, FiniteSets, TLC

(***************************************************************************)
(* Bounds of the model.                                                    *)
(***************************************************************************)
\* Number of HTTP worker threads that serve requests concurrently.
NumWorkers == 2
\* Number of requests the workers accept in total during one run.
MaxRequests == 2

(***************************************************************************)
(* Program constants.                                                      *)
(***************************************************************************)
\* rcon.rs:23  const META_SIZE: usize = 4 + 4 + 2
META_SIZE == 10
\* rcon.rs:25  const TIMEOUT: Duration = Duration::from_secs(10)
TIMEOUT == 10
\* rcon.rs:27  const SIZE_MAX: i32 = 4110
SIZE_MAX == 4110
\* i32::MAX and i32::MIN
I32Max == 2147483647
I32Min == (-2147483647) - 1
\* rcon.rs:45 and rcon.rs:52: the message types of the two transactions
TYPE_AUTH == 3
TYPE_EXEC == 2

(***************************************************************************)
(* Byte strings used by the model.                                         *)
(***************************************************************************)
\* "POST", "GET"
POST == <<80, 79, 83, 84>>
GET == <<71, 69, 84>>
\* "/api/"
API_PREFIX == <<47, 97, 112, 105, 47>>
\* "restart", "ls", "nope": two configured webhook names and an unknown one
NameRestart == <<114, 101, 115, 116, 97, 114, 116>>
NameLs == <<108, 115>>
NameNope == <<110, 111, 112, 101>>
\* "stop", "list": the configured commands
CmdStop == <<115, 116, 111, 112>>
CmdList == <<108, 105, 115, 116>>
\* "secret": the RCON password
Password == <<115, 101, 99, 114, 101, 116>>
\* "ok": a reply text
ReplyOk == <<111, 107>>
\* the bytes of site.html (the file is not part of the sources), "<html>"
SITE == <<60, 104, 116, 109, 108, 62>>

\* Option<T>: None, and Some(v)
None == <<>>
Some(v) == <<v>>

(***************************************************************************)
(* i32 arithmetic and little-endian encoding.                              *)
(***************************************************************************)
\* The value AtomicI32::fetch_add(1) stores: x + 1, wrapping at i32::MAX.
WrapAdd1(x) == IF x = I32Max THEN I32Min ELSE x + 1

\* i32::to_le_bytes
ToLeBytes(x) ==
  LET y == IF x < 0 THEN (x + I32Max) + 1 ELSE x
      top == y \div 16777216
  IN  << y % 256,
         (y \div 256) % 256,
         (y \div 65536) % 256,
         IF x < 0 THEN top + 128 ELSE top >>

\* i32::from_le_bytes
FromLeBytes(b) ==
  LET low == b[1] + 256 * b[2] + 65536 * b[3]
  IN  IF b[4] >= 128
        THEN ((low + 16777216 * (b[4] - 128)) - I32Max) - 1
        ELSE low + 16777216 * b[4]

(***************************************************************************)
(* str::from_utf8: whether a byte string is well-formed UTF-8.             *)
(***************************************************************************)
IsCont(b) == b >= 128 /\ b <= 191

\* The length of the sequence a lead byte announces (0: not a lead byte).
Utf8Width(b) ==
  IF b <= 127 THEN 1
  ELSE IF b >= 194 /\ b <= 223 THEN 2
  ELSE IF b >= 224 /\ b <= 239 THEN 3
  ELSE IF b >= 240 /\ b <= 244 THEN 4
  ELSE 0

\* The range the second byte of a sequence must lie in.
Utf8SecondOk(lead, b) ==
  IF lead = 224 THEN b >= 160 /\ b <= 191
  ELSE IF lead = 237 THEN b >= 128 /\ b <= 159
  ELSE IF lead = 240 THEN b >= 144 /\ b <= 191
  ELSE IF lead = 244 THEN b >= 128 /\ b <= 143
  ELSE IsCont(b)

\* A well-formed sequence starts at position i of s.
Utf8StartsAt(s, i) ==
  LET w == Utf8Width(s[i])
  IN  /\ w >= 1
      /\ i + w - 1 <= Len(s)
      /\ w >= 2 => Utf8SecondOk(s[i], s[i + 1])
      /\ \A k \in 2..(w - 1) : IsCont(s[i + k])

IsUtf8(s) ==
  \A i \in 1..Len(s) :
    IF IsCont(s[i])
      THEN \E d \in 1..3 :
             /\ i - d >= 1
             /\ ~IsCont(s[i - d])
             /\ Utf8Width(s[i - d]) > d
             /\ \A k \in 1..(d - 1) : IsCont(s[i - k])
             /\ Utf8StartsAt(s, i - d)
      ELSE Utf8StartsAt(s, i)

(***************************************************************************)
(* RconConnection::serialize and RconConnection::deserialize.              *)
(***************************************************************************)
Ok(v) == [ok |-> TRUE, value |-> v]
Err(e) == [ok |-> FALSE, error |-> e]

\* A string of n bytes that is too long to be spelled out: the run of its
\* n bytes is written as the one element -n (a byte is never negative).
Long(n) == <<-n>>

\* str::len
StrLen(s) == IF Len(s) = 1 /\ s[1] < 0 THEN -s[1] ELSE Len(s)

\* A conversion that refuses the length i32::MAX - META_SIZE already.
SerializeSizeOffByOne(payloadLen) ==
  IF payloadLen >= I32Max - META_SIZE
    THEN Err("integer conversion error")
    ELSE Ok(payloadLen + META_SIZE)

\* i32::try_from(payload.len() + META_SIZE): fails above i32::MAX.
SerializeSize(payloadLen) ==
  IF payloadLen > I32Max - META_SIZE
    THEN Err("integer conversion error")
    ELSE Ok(payloadLen + META_SIZE)

Serialize(id, type, payload) ==
  LET size == SerializeSize(StrLen(payload))
  IN  IF ~size.ok
        THEN size
        ELSE Ok(ToLeBytes(size.value) \o ToLeBytes(id) \o ToLeBytes(type)
                  \o payload \o <<0, 0>>)

\* deserialize with the two terminator bytes counted as body.
DeserializeWithTerminator(message) ==
  IF Len(message) < 12
    THEN Err("Truncated RCON message header")
    ELSE Ok([id |-> FromLeBytes(SubSeq(message, 5, 8)),
             type |-> FromLeBytes(SubSeq(message, 9, 12)),
             body |-> SubSeq(message, 13, Len(message))])

\* deserialize that takes a size below the metadata size for an empty body.
DeserializeClamped(message) ==
  IF Len(message) < 12
    THEN Err("Truncated RCON message header")
    ELSE
      LET size == FromLeBytes(SubSeq(message, 1, 4))
          body_len == size - META_SIZE
      IN  IF size < 0
            THEN Err("integer conversion error")
          ELSE IF body_len <= 0
            THEN Ok([id |-> FromLeBytes(SubSeq(message, 5, 8)),
                     type |-> FromLeBytes(SubSeq(message, 9, 12)), body |-> <<>>])
          ELSE IF 12 + body_len > Len(message)
            THEN Err("Truncated RCON message body")
          ELSE IF ~IsUtf8(SubSeq(message, 13, 12 + body_len))
            THEN Err("UTF-8 decoding error")
          ELSE Ok([id |-> FromLeBytes(SubSeq(message, 5, 8)),
                   type |-> FromLeBytes(SubSeq(message, 9, 12)),
                   body |-> SubSeq(message, 13, 12 + body_len)])

\* deserialize that insists on the type of a response (0 or 2) and on two
\* NUL bytes at the end of the message.
DeserializeStrict(message) ==
  IF Len(message) < 12
    THEN Err("Truncated RCON message header")
    ELSE
      LET size == FromLeBytes(SubSeq(message, 1, 4))
          type == FromLeBytes(SubSeq(message, 9, 12))
          body_len == size - META_SIZE
      IN  IF size < 0
            THEN Err("integer conversion error")
          ELSE IF body_len < 0
            THEN Err("Invalid size field in RCON message")
          ELSE IF type \notin {0, 2}
            THEN Err("Invalid type field in RCON message")
          ELSE IF 14 + body_len > Len(message)
            THEN Err("Truncated RCON message body")
          ELSE IF SubSeq(message, 13 + body_len, 14 + body_len) # <<0, 0>>
            THEN Err("Invalid terminator in RCON message")
          ELSE IF ~IsUtf8(SubSeq(message, 13, 12 + body_len))
            THEN Err("UTF-8 decoding error")
          ELSE Ok([id |-> FromLeBytes(SubSeq(message, 5, 8)), type |-> type,
                   body |-> SubSeq(message, 13, 12 + body_len)])

Deserialize(message) ==
  IF Len(message) < 12
    THEN Err("Truncated RCON message header")
    ELSE
      LET size == FromLeBytes(SubSeq(message, 1, 4))
          id == FromLeBytes(SubSeq(message, 5, 8))
          type == FromLeBytes(SubSeq(message, 9, 12))
          body_len == size - META_SIZE
      IN  IF size < 0
            THEN Err("integer conversion error")
          ELSE IF body_len < 0
            THEN Err("Invalid size field in RCON message")
          ELSE IF body_len = 0
            THEN Ok([id |-> id, type |-> type, body |-> <<>>])
          ELSE IF 12 + body_len > Len(message)
            THEN Err("Truncated RCON message body")
          ELSE IF ~IsUtf8(SubSeq(message, 13, 12 + body_len))
            THEN Err("UTF-8 decoding error")
          ELSE Ok([id |-> id, type |-> type,
                   body |-> SubSeq(message, 13, 12 + body_len)])

(***************************************************************************)
(* The configuration (config.rs) and the requests the clients send.        *)
(***************************************************************************)
Workers == 1..NumWorkers

\* config.webhooks.hooks: "ls" -> "list", "restart" -> "stop"
ConfigHooks == [n \in {NameLs, NameRestart} |-> IF n = NameLs THEN CmdList ELSE CmdStop]

\* The configurations a process may have loaded: with and without a password.
Configs == {[password |-> p, hooks |-> ConfigHooks] : p \in {None, Some(Password)}}

\* "/", "/api", "/api/", "/api/restart", "/api/ls", "/api/nope"
Targets == {<<47>>, <<47, 97, 112, 105>>, API_PREFIX, API_PREFIX \o NameRestart,
            API_PREFIX \o NameLs, API_PREFIX \o NameNope}
Methods == {POST, GET}
Requests == {[method |-> m, target |-> t] : m \in Methods, t \in Targets}

\* The requests a concurrent run is checked with: POST /api/restart and
\* POST /api/nope.
FewRequests ==
  {[method |-> POST, target |-> API_PREFIX \o NameRestart],
   [method |-> POST, target |-> API_PREFIX \o NameNope]}

\* Values of ID_COUNTER a process can have reached when the run starts: the
\* initial 0, and the values before the two wrap-arounds (-1 -> 0 after
\* 2^32 - 1 transactions, i32::MAX -> i32::MIN after 2^31 - 1).
StartIds == {0, -1, I32Max}
\* The two of them a concurrent run is checked with.
FewStartIds == {0, I32Max}

\* The 32-byte values getrandom may produce (two of them).
Secrets == {[i \in 1..32 |-> b] : b \in {1, 2}}

(***************************************************************************)
(* The blinded lookup (mod.rs, lookup_any).                                *)
(***************************************************************************)
\* Sha512_256::new().chain_update(name).chain_update(secret).finalize():
\* the digest of name || secret.  The hash is taken as collision-free: a
\* digest stands for the bytes it was computed from, so that two digests
\* are equal exactly when the names and the (32-byte) secrets are.
Hash(name, secret) == [sha512_256 |-> name \o secret]

\* The order of byte strings in a BTreeMap.
LexLess(a, b) ==
  \E i \in 1..(Len(a) + 1) :
    /\ \A k \in 1..(i - 1) : k <= Len(b) /\ a[k] = b[k]
    /\ IF i > Len(a) THEN Len(b) >= i ELSE i <= Len(b) /\ a[i] < b[i]

\* The keys of a map in iteration order.
SortedKeys(m) ==
  CHOOSE s \in [1..Cardinality(DOMAIN m) -> DOMAIN m] :
    \A i, j \in 1..Cardinality(DOMAIN m) : i < j => LexLess(s[i], s[j])

\* A map that is created anew in every turn of the loop keeps one entry.
InsertIntoFresh(t, k, v) == [x \in {k} |-> v]

\* BTreeMap::insert: the last write to a key wins.
Insert(t, k, v) == [x \in (DOMAIN t) \cup {k} |-> IF x = k THEN v ELSE t[x]]

\* A lookup that falls back to a command for a key the map does not hold.
GetOrDefault(t, k) == IF k \in DOMAIN t THEN Some(t[k]) ELSE Some(CmdStop)

\* BTreeMap::get
Get(t, k) == IF k \in DOMAIN t THEN Some(t[k]) ELSE None

EmptyMap == <<>>
EmptyCell == [state |-> "empty", value |-> <<>>]

\* A cell that lets every caller that finds no value run its closure.
OnceMayInitUnguarded(cell) == cell.state # "set"

\* A cell whose value a later caller may construct anew.
OnceMayInitAgain(cell) == cell.state # "running"

\* OnceLock::get_or_init runs the closure of the caller that finds the cell
\* empty; a caller that finds another one initializing waits.
OnceMayInit(cell) == cell.state = "empty"

(***************************************************************************)
(* Routing (main.rs, route) and the head of webhook (mod.rs).              *)
(***************************************************************************)
StartsWith(s, p) == Len(s) >= Len(p) /\ SubSeq(s, 1, Len(p)) = p

\* <[u8]>::strip_prefix
StripPrefix(s, p) == IF StartsWith(s, p) THEN Some(SubSeq(s, Len(p) + 1, Len(s))) ELSE None

\* ehttpd's responses: new_XXX, set_content_length(0), set_field, set_body_data
\* (contentType "": the field is not set).
Response(status, contentType, body) ==
  [status |-> status, contentType |-> contentType, body |-> body]
Response404 == Response(404, "", <<>>)
Response405 == Response(405, "", <<>>)
\* A 500 response that carries the text of a reply.
Response500WithReply == Response(500, "", ReplyOk)
Response500 == Response(500, "", <<>>)
Response200(body) == Response(200, "text/plain", body)
ResponseSite == Response(200, "", SITE)

\* A route that hands every POST below /api (without the slash) to webhook.
RouteArmLoosePrefix(request) ==
  IF request.method = POST /\ StartsWith(request.target, <<47, 97, 112, 105>>)
    THEN "webhook"
  ELSE IF request.method = GET /\ request.target = <<47>> THEN "site"
  ELSE "notfound"

\* The arm of the match in route that a request takes.
RouteArm(request) ==
  IF request.method = POST /\ StartsWith(request.target, API_PREFIX) THEN "webhook"
  ELSE IF request.method = GET /\ request.target = <<47>> THEN "site"
  ELSE "notfound"

\* webhook up to the call of lookup_any: the method check and the prefix strip.
WebhookHead(request) ==
  IF request.method # POST THEN [arm |-> "405"]
  ELSE LET name == StripPrefix(request.target, API_PREFIX)
       IN  IF name # None THEN [arm |-> "lookup", name |-> name[1]]
           ELSE [arm |-> "panic"]   \* expect("called endpoint with invalid prefix")

(***************************************************************************)
(* The read half of RconConnection::transaction.                           *)
(***************************************************************************)
\* The range without its upper end.
SizeAcceptedExclusive(size) == size >= 0 /\ size < SIZE_MAX

\* rcon.rs:65  let size @ 0..=Self::SIZE_MAX = ... else { return Err }
SizeAccepted(size) == size >= 0 /\ size <= SIZE_MAX

\* A transaction that does not compare the ids.
IdMatchesAlways(response_id, id) == TRUE

\* rcon.rs:85  let true = response_id == id else { return Err }
IdMatches(response_id, id) == response_id = id

\* A buffer that holds the bytes of the second read only.
ResponseBufferBodyOnly(size_bytes, size, rx) == SubSeq(rx, 5, 4 + size)

\* rcon.rs:72-81  the buffer handed to deserialize: the 4 length bytes as
\* received, then the size bytes of the second read_exact.
ResponseBuffer(size_bytes, size, rx) == size_bytes \o SubSeq(rx, 5, 4 + size)

\* rx: the bytes the server delivers before the read timeout.  The result
\* records the outcome, the number of read_exact calls issued, the declared
\* length, the buffer passed to deserialize and the id parsed from the
\* response (None: not reached).
Receive(id, rx) ==
  IF Len(rx) < 4
    THEN [result |-> Err("I/O error"), reads |-> 1, declared |-> None,
          buffer |-> None, respId |-> None]
    ELSE
      LET size_bytes == SubSeq(rx, 1, 4)
          size == FromLeBytes(size_bytes)
      IN  IF ~SizeAccepted(size)
            THEN [result |-> Err("Announced RCON response is too large"),
                  reads |-> 1, declared |-> Some(size), buffer |-> None,
                  respId |-> None]
          ELSE IF Len(rx) - 4 < size
            THEN [result |-> Err("I/O error"), reads |-> 2,
                  declared |-> Some(size), buffer |-> None, respId |-> None]
          ELSE
            LET response == ResponseBuffer(size_bytes, size, rx)
                d == Deserialize(response)
            IN  IF ~d.ok
                  THEN [result |-> d, reads |-> 2, declared |-> Some(size),
                        buffer |-> Some(response), respId |-> None]
                ELSE IF ~IdMatches(d.value.id, id)
                  THEN [result |-> Err("Invalid RCON response ID"), reads |-> 2,
                        declared |-> Some(size), buffer |-> Some(response),
                        respId |-> Some(d.value.id)]
                ELSE [result |-> Ok(d.value.body), reads |-> 2,
                      declared |-> Some(size), buffer |-> Some(response),
                      respId |-> Some(d.value.id)]

\* A socket whose read timeout was never set.
ReadTimeoutNone == None

\* rcon.rs:38  connection.set_read_timeout(Some(Self::TIMEOUT))
ReadTimeout == Some(TIMEOUT)

\* One of the two read_exact calls of transaction never returns: the socket
\* has no read timeout and the server does not deliver the bytes the call
\* waits for (the 4 length bytes, or the declared number of further bytes).
ReadBlocks(rx, timeout) ==
  /\ timeout = None
  /\ \/ Len(rx) < 4
     \/ /\ SizeAccepted(FromLeBytes(SubSeq(rx, 1, 4)))
        /\ Len(rx) - 4 < FromLeBytes(SubSeq(rx, 1, 4))

\* A message as a server may put it on the wire, well-formed or not.
Wire(size, id, type, body, term) ==
  ToLeBytes(size) \o ToLeBytes(id) \o ToLeBytes(type) \o body \o term

\* What a server may deliver in answer to the request with the given id,
\* by the kind of the answer.
ServerReply(kind, id) ==
  CASE kind = "nothing" -> <<>>
    [] kind = "ok" -> Wire(12, id, 0, ReplyOk, <<0, 0>>)
    [] kind = "empty" -> Wire(10, id, 2, <<>>, <<0, 0>>)
    \* authentication refused: the id -1
    [] kind = "refused" -> Wire(10, -1, 2, <<>>, <<0, 0>>)
    \* the id of another transaction
    [] kind = "other_id" -> Wire(12, WrapAdd1(id), 0, ReplyOk, <<0, 0>>)
    [] kind = "negative" -> Wire(-1, id, 0, ReplyOk, <<0, 0>>)
    [] kind = "above_max" -> Wire(SIZE_MAX + 1, id, 0, ReplyOk, <<0, 0>>)
    [] kind = "5000" -> Wire(5000, id, 0, ReplyOk, <<0, 0>>)
    \* the maximal length declared, the message cut after 14 bytes
    [] kind = "max_cut" -> Wire(SIZE_MAX, id, 0, ReplyOk, <<>>)
    [] kind = "cut" -> SubSeq(Wire(12, id, 0, ReplyOk, <<0, 0>>), 1, 10)
    \* declared lengths below the 10 bytes of metadata
    [] kind = "len5" -> ToLeBytes(5) \o <<1, 2, 3, 4, 5>>
    [] kind = "len9" -> Wire(9, id, 0, <<97>>, <<>>)
    [] kind = "len0" -> ToLeBytes(0)
    [] kind = "not_utf8" -> Wire(11, id, 0, <<255>>, <<0, 0>>)
    \* an unknown type and terminator bytes that are not NUL
    [] kind = "odd" -> Wire(12, id, 77, ReplyOk, <<1, 2>>)

\* Every kind of answer, and the three a concurrent run is checked with.
ReplyKinds ==
  {"nothing", "ok", "empty", "refused", "other_id", "negative", "above_max",
   "5000", "max_cut", "cut", "len5", "len9", "len0", "not_utf8", "odd"}
FewReplyKinds == {"nothing", "ok", "refused"}

(***************************************************************************)
(* The state.                                                              *)
(***************************************************************************)
VARIABLES
  config,       \* the loaded Config, shared by all workers
  SECRET,       \* static SECRET: OnceLock<[u8; 32]>
  HOOKS,        \* static HOOKS: OnceLock<BTreeMap<[u8; 32], String>>
  ID_COUNTER,   \* static ID_COUNTER: AtomicI32
  pc,           \* where each worker is in route / webhook / lookup_any / exec
  req,          \* the request a worker serves (or served last)
  resp,         \* the response route returned for it
  name,         \* webhook: the presented name
  secret,       \* lookup_any: the reference get_or_init returned for SECRET
  hooks,        \* the closure of HOOKS.get_or_init: the map being filled
  todo,         \* that closure: the entries of config.webhooks.hooks left
  lookup,       \* the result of lookup_any in this request
  conn,         \* exec: the worker's RconConnection and what was written to it
  tx,           \* the worker's current (or last) transaction
  openConns,    \* the TCP connections currently open
  accepted,     \* the number of requests accepted so far
  secretInits,  \* how often the closure of SECRET.get_or_init ran to its end
  hooksInits,   \* how often the closure of HOOKS.get_or_init ran to its end
  lookups,      \* how many calls of lookup_any have returned
  connsOpened,  \* the number of TCP connections opened so far
  txBase,       \* the value of ID_COUNTER when the run started
  issued,       \* the ids the transactions of this run took, in order
  codec         \* the serialize / deserialize round trip (SpecCodec)

shared == <<config, SECRET, HOOKS, ID_COUNTER>>
request == <<req, resp, name, lookup>>
once == <<secret, hooks, todo, secretInits, hooksInits, lookups>>
rcon == <<conn, tx, openConns, connsOpened, txBase, issued>>
vars == <<shared, pc, request, once, rcon, accepted, codec>>

NoRequest == [method |-> <<>>, target |-> <<>>]
NoResponse == Response(0, "", <<>>)
NoLookup == [done |-> FALSE, result |-> None]
NoConn == [cid |-> 0, authed |-> FALSE, writes |-> <<>>]
NoTx == [type |-> 0, id |-> 0, state |-> "none", reads |-> 0, declared |-> None,
         respId |-> None, payload |-> None, error |-> ""]
CodecIdle == [phase |-> "off"]

\* The state of a process that has loaded its configuration and has not
\* served a webhook yet, the id counter being one of ids.
Start(ids) ==
  /\ config \in Configs
  /\ SECRET = EmptyCell
  /\ HOOKS = EmptyCell
  /\ ID_COUNTER \in ids
  /\ txBase = ID_COUNTER
  /\ pc = [w \in Workers |-> "idle"]
  /\ req = [w \in Workers |-> NoRequest]
  /\ resp = [w \in Workers |-> NoResponse]
  /\ name = [w \in Workers |-> <<>>]
  /\ secret = [w \in Workers |-> <<>>]
  /\ hooks = [w \in Workers |-> EmptyMap]
  /\ todo = [w \in Workers |-> <<>>]
  /\ lookup = [w \in Workers |-> NoLookup]
  /\ conn = [w \in Workers |-> NoConn]
  /\ tx = [w \in Workers |-> NoTx]
  /\ openConns = {}
  /\ accepted = 0
  /\ secretInits = 0
  /\ hooksInits = 0
  /\ lookups = 0
  /\ connsOpened = 0
  /\ issued = <<>>
  /\ codec = CodecIdle

(***************************************************************************)
(* route, and webhook up to the call of lookup_any.                        *)
(***************************************************************************)
Route(w, requests) ==
  /\ pc[w] = "idle"
  /\ accepted < MaxRequests
  /\ \E r \in requests :
       LET arm == RouteArm(r)
           head == WebhookHead(r)
       IN  /\ req' = [req EXCEPT ![w] = r]
           /\ IF arm = "webhook" /\ head.arm = "lookup"
                THEN /\ pc' = [pc EXCEPT ![w] = "secret"]
                     /\ name' = [name EXCEPT ![w] = head.name]
                     /\ resp' = [resp EXCEPT ![w] = NoResponse]
              ELSE IF arm = "webhook" /\ head.arm = "panic"
                THEN /\ pc' = [pc EXCEPT ![w] = "panicked"]
                     /\ resp' = [resp EXCEPT ![w] = NoResponse]
                     /\ name' = name
              ELSE /\ pc' = pc
                   /\ name' = [name EXCEPT ![w] = <<>>]
                   /\ resp' = [resp EXCEPT ![w] =
                        IF arm = "webhook" THEN Response405
                        ELSE IF arm = "site" THEN ResponseSite
                        ELSE Response404]
  /\ accepted' = accepted + 1
  /\ lookup' = [lookup EXCEPT ![w] = NoLookup]
  /\ conn' = [conn EXCEPT ![w] = NoConn]
  /\ tx' = [tx EXCEPT ![w] = NoTx]
  /\ UNCHANGED <<shared, once, openConns, connsOpened, txBase, issued, codec>>

(***************************************************************************)
(* lookup_any.                                                             *)
(***************************************************************************)
\* SECRET.get_or_init: the cell is set, or this caller is the one to run
\* the closure; otherwise the caller waits.
SecretGetOrInit(w) ==
  /\ pc[w] = "secret"
  /\ \/ /\ SECRET.state = "set"
        /\ secret' = [secret EXCEPT ![w] = SECRET.value]
        /\ pc' = [pc EXCEPT ![w] = "hooks"]
        /\ SECRET' = SECRET
     \/ /\ OnceMayInit(SECRET)
        /\ SECRET' = [SECRET EXCEPT !.state = "running"]
        /\ pc' = [pc EXCEPT ![w] = "secret_init"]
        /\ secret' = secret
  /\ UNCHANGED <<config, HOOKS, ID_COUNTER, request, hooks, todo, secretInits,
                 hooksInits, lookups, rcon, accepted, codec>>

\* The closure: getrandom fills the secret, which the cell then holds.
SecretInit(w) ==
  /\ pc[w] = "secret_init"
  /\ \E s \in Secrets :
       /\ SECRET' = [state |-> "set", value |-> s]
       /\ secret' = [secret EXCEPT ![w] = s]
  /\ secretInits' = secretInits + 1
  /\ pc' = [pc EXCEPT ![w] = "hooks"]
  /\ UNCHANGED <<config, HOOKS, ID_COUNTER, request, hooks, todo, hooksInits,
                 lookups, rcon, accepted, codec>>

HooksGetOrInit(w) ==
  /\ pc[w] = "hooks"
  /\ \/ /\ HOOKS.state = "set"
        /\ pc' = [pc EXCEPT ![w] = "lookup"]
        /\ UNCHANGED <<HOOKS, hooks, todo>>
     \/ /\ OnceMayInit(HOOKS)
        /\ HOOKS' = [HOOKS EXCEPT !.state = "running"]
        /\ hooks' = [hooks EXCEPT ![w] = EmptyMap]
        /\ todo' = [todo EXCEPT ![w] = SortedKeys(config.hooks)]
        /\ pc' = [pc EXCEPT ![w] = "hooks_init"]
  /\ UNCHANGED <<config, SECRET, ID_COUNTER, request, secret, secretInits,
                 hooksInits, lookups, rcon, accepted, codec>>

\* One turn of the loop of the closure: hash the key, insert the entry.
HooksInsert(w) ==
  /\ pc[w] = "hooks_init"
  /\ todo[w] # <<>>
  /\ hooks' = [hooks EXCEPT ![w] =
       Insert(hooks[w], Hash(Head(todo[w]), secret[w]), config.hooks[Head(todo[w])])]
  /\ todo' = [todo EXCEPT ![w] = Tail(todo[w])]
  /\ UNCHANGED <<shared, pc, request, secret, secretInits, hooksInits, lookups,
                 rcon, accepted, codec>>

\* The closure returns the map, which the cell then holds.
HooksInit(w) ==
  /\ pc[w] = "hooks_init"
  /\ todo[w] = <<>>
  /\ HOOKS' = [state |-> "set", value |-> hooks[w]]
  /\ hooks' = [hooks EXCEPT ![w] = EmptyMap]
  /\ hooksInits' = hooksInits + 1
  /\ pc' = [pc EXCEPT ![w] = "lookup"]
  /\ UNCHANGED <<config, SECRET, ID_COUNTER, request, secret, todo, secretInits,
                 lookups, rcon, accepted, codec>>

\* The end of lookup_any (hash the presented name, look it up) and what
\* webhook does with the result: 404, or go on to rcon::exec.
Lookup(w) ==
  /\ pc[w] = "lookup"
  /\ LET found == Get(HOOKS.value, Hash(name[w], secret[w]))
     IN  /\ lookup' = [lookup EXCEPT ![w] = [done |-> TRUE, result |-> found]]
         /\ IF found = None
              THEN /\ resp' = [resp EXCEPT ![w] = Response404]
                   /\ pc' = [pc EXCEPT ![w] = "idle"]
              ELSE /\ resp' = resp
                   /\ pc' = [pc EXCEPT ![w] = "new"]
  /\ lookups' = lookups + 1
  /\ UNCHANGED <<shared, req, name, secret, hooks, todo, secretInits, hooksInits,
                 rcon, accepted, codec>>

(***************************************************************************)
(* rcon::exec: RconConnection::new, send, transaction.                     *)
(***************************************************************************)
\* A counter that saturates at i32::MAX instead of wrapping.
FetchAddSaturating(counter) ==
  [id |-> counter, stored |-> IF counter = I32Max THEN I32Max ELSE counter + 1]

\* ID_COUNTER.fetch_add(1, SeqCst): the id taken and the value stored.
FetchAdd(counter) == [id |-> counter, stored |-> WrapAdd1(counter)]

\* A connection that is kept (pooled, leaked) when its owner returns.
DropLeaks(open, cid) == open

\* The TcpStream of a connection goes out of scope: the socket is closed.
Drop(open, cid) == open \ {cid}

\* new without the authentication transaction.
FirstTxTypeNoAuth(cfg) == TYPE_EXEC

\* The type and the body of the transaction new or send starts.
FirstTxType(cfg) == IF cfg.password # None THEN TYPE_AUTH ELSE TYPE_EXEC

\* What the connect and the socket configuration of new may end in.
ConnectOutcomes == {"resolve_err", "connect_err", "configure_err", "ok"}

\* RconConnection::new up to the authentication transaction; on an error
\* exec returns it and webhook answers 500.
RconNew(w) ==
  /\ pc[w] = "new"
  /\ \E outcome \in ConnectOutcomes :
       LET cid == connsOpened + 1
       IN  IF outcome \in {"resolve_err", "connect_err"}
             THEN /\ resp' = [resp EXCEPT ![w] = Response500]
                  /\ pc' = [pc EXCEPT ![w] = "idle"]
                  /\ UNCHANGED <<conn, tx, openConns, connsOpened>>
           ELSE IF outcome = "configure_err"
             THEN /\ connsOpened' = cid
                  /\ conn' = [conn EXCEPT ![w] = [NoConn EXCEPT !.cid = cid]]
                  /\ openConns' = Drop(openConns \cup {cid}, cid)
                  /\ resp' = [resp EXCEPT ![w] = Response500]
                  /\ pc' = [pc EXCEPT ![w] = "idle"]
                  /\ tx' = tx
           ELSE /\ connsOpened' = cid
                /\ conn' = [conn EXCEPT ![w] = [NoConn EXCEPT !.cid = cid]]
                /\ openConns' = openConns \cup {cid}
                /\ tx' = [tx EXCEPT ![w] = [NoTx EXCEPT !.type = FirstTxType(config)]]
                /\ pc' = [pc EXCEPT ![w] = "tx_send"]
                /\ resp' = resp
  /\ UNCHANGED <<shared, req, name, lookup, once, txBase, issued, accepted, codec>>

\* The write half of transaction: take the id, serialize, write_all.
TransactionSend(w) ==
  /\ pc[w] = "tx_send"
  /\ \E taken \in {FetchAdd(ID_COUNTER)} :
     \E message \in {Serialize(taken.id, tx[w].type,
                                IF tx[w].type = TYPE_AUTH THEN config.password[1]
                                ELSE lookup[w].result[1])} :
         /\ ID_COUNTER' = taken.stored
         /\ issued' = Append(issued, taken.id)
         /\ \E written \in BOOLEAN :
              IF message.ok /\ written
                THEN /\ conn' = [conn EXCEPT ![w].writes = Append(@,
                          [type |-> FromLeBytes(SubSeq(message.value, 9, 12)),
                           id |-> FromLeBytes(SubSeq(message.value, 5, 8))])]
                     /\ tx' = [tx EXCEPT ![w].id = taken.id, ![w].state = "sent"]
                     /\ pc' = [pc EXCEPT ![w] = "tx_recv"]
                     /\ UNCHANGED <<resp, openConns>>
                ELSE /\ tx' = [tx EXCEPT ![w].id = taken.id, ![w].state = "err",
                                 ![w].error = IF message.ok THEN "I/O error"
                                              ELSE message.error]
                     /\ openConns' = Drop(openConns, conn[w].cid)
                     /\ resp' = [resp EXCEPT ![w] = Response500]
                     /\ pc' = [pc EXCEPT ![w] = "idle"]
                     /\ conn' = conn
  /\ UNCHANGED <<config, SECRET, HOOKS, req, name, lookup, once, connsOpened,
                 txBase, accepted, codec>>

\* The read half of transaction and what follows its return: after the
\* authentication new returns the connection and send starts the command's
\* transaction; after the command exec returns the reply and webhook
\* answers 200; on an error exec returns it and webhook answers 500.  The
\* connection is dropped when exec returns.  A read that never returns
\* leaves the worker blocked inside transaction.
TransactionRecv(w, kinds) ==
  /\ pc[w] = "tx_recv"
  /\ \E kind \in kinds : \E rx \in {ServerReply(kind, tx[w].id)} :
       IF ReadBlocks(rx, ReadTimeout)
         THEN /\ pc' = [pc EXCEPT ![w] = "blocked"]
              /\ UNCHANGED <<tx, openConns, resp, conn>>
       ELSE \E r \in {Receive(tx[w].id, rx)} :
           /\ tx' = [tx EXCEPT ![w].reads = r.reads,
                               ![w].declared = r.declared,
                               ![w].respId = r.respId,
                               ![w].state = IF r.result.ok THEN "ok" ELSE "err",
                               ![w].payload = IF r.result.ok THEN Some(r.result.value)
                                              ELSE None,
                               ![w].error = IF r.result.ok THEN "" ELSE r.result.error]
           /\ IF ~r.result.ok
                THEN /\ openConns' = Drop(openConns, conn[w].cid)
                     /\ resp' = [resp EXCEPT ![w] = Response500]
                     /\ pc' = [pc EXCEPT ![w] = "idle"]
                     /\ conn' = conn
              ELSE IF tx[w].type = TYPE_AUTH
                THEN /\ conn' = [conn EXCEPT ![w].authed = TRUE]
                     /\ pc' = [pc EXCEPT ![w] = "cmd"]
                     /\ UNCHANGED <<openConns, resp>>
              ELSE /\ openConns' = Drop(openConns, conn[w].cid)
                   /\ resp' = [resp EXCEPT ![w] = Response200(r.result.value)]
                   /\ pc' = [pc EXCEPT ![w] = "idle"]
                   /\ conn' = conn
  /\ UNCHANGED <<shared, req, name, lookup, once, connsOpened, txBase, issued,
                 accepted, codec>>

\* new returns Ok(this) to exec, which calls send: the command's transaction.
Send(w) ==
  /\ pc[w] = "cmd"
  /\ tx' = [tx EXCEPT ![w] = [NoTx EXCEPT !.type = TYPE_EXEC]]
  /\ pc' = [pc EXCEPT ![w] = "tx_send"]
  /\ UNCHANGED <<shared, request, once, conn, openConns, connsOpened, txBase,
                 issued, accepted, codec>>

\* The steps of the workers ws, under the given requests and answers.
Step(ws, requests, kinds) ==
  \E w \in ws :
    \/ Route(w, requests)
    \/ SecretGetOrInit(w)
    \/ SecretInit(w)
    \/ HooksGetOrInit(w)
    \/ HooksInsert(w)
    \/ HooksInit(w)
    \/ Lookup(w)
    \/ RconNew(w)
    \/ TransactionSend(w)
    \/ TransactionRecv(w, kinds)
    \/ Send(w)

\* All workers serve requests concurrently.
Next == Step(Workers, FewRequests, FewReplyKinds)

Init == Start(FewStartIds)

Spec == Init /\ [][Next]_vars

\* One worker serves one request after the other, of every kind, and the
\* server gives answers of every kind.
NextWire == Step({1}, Requests, ReplyKinds)

InitWire == Start(StartIds)

SpecWire == InitWire /\ [][NextWire]_vars

\* The steps of a worker inside rcon::exec.
ExecStep(w, kinds) ==
  \/ RconNew(w)
  \/ TransactionSend(w)
  \/ TransactionRecv(w, kinds)
  \/ Send(w)

\* SpecWire with a worker thread that keeps running while it is inside
\* exec: each blocking connect, write and read of exec completes or hits
\* its timeout, and the thread goes on.
SpecWireLive ==
  InitWire /\ [][NextWire]_vars /\ WF_vars(ExecStep(1, ReplyKinds))

(***************************************************************************)
(* lookup_any called with configurations that differ from call to call:   *)
(* the function takes the configuration as a parameter.                    *)
(***************************************************************************)
\* Other webhook entries: "restart" with another command ("list"), "nope"
\* configured ("stop"), "ls" not configured.
OtherHooks ==
  [n \in {NameNope, NameRestart} |-> IF n = NameNope THEN CmdStop ELSE CmdList]

\* The callers pass another configuration from now on.
Reconfigure ==
  /\ \A w \in Workers : pc[w] = "idle"
  /\ config' = [config EXCEPT !.hooks = IF @ = ConfigHooks THEN OtherHooks
                                        ELSE ConfigHooks]
  /\ UNCHANGED <<SECRET, HOOKS, ID_COUNTER, pc, request, once, rcon, accepted, codec>>

\* POST /api/restart, POST /api/ls, POST /api/nope
LookupRequests ==
  {[method |-> POST, target |-> API_PREFIX \o n] : n \in {NameRestart, NameLs, NameNope}}

NextReconf == Step({1}, LookupRequests, FewReplyKinds) \/ Reconfigure

SpecReconf == Init /\ [][NextReconf]_vars

(***************************************************************************)
(* The round trip of serialize and deserialize, on inputs drawn from       *)
(* bounded sets.                                                           *)
(***************************************************************************)
\* The longest payload of the round trip.
MaxPayloadLen == 3

\* Bytes the payloads are made of: NUL, "a", and the two bytes of U+00E9.
PayloadBytes == {0, 97, 195, 169}

\* The UTF-8 strings of at most MaxPayloadLen bytes over PayloadBytes.
Payloads ==
  {p \in UNION {[1..n -> PayloadBytes] : n \in 0..MaxPayloadLen} : IsUtf8(p)}

CodecIds == {0, 1, -1, 255, 256, -256, 65536, I32Max, I32Min}
CodecTypes == {0, TYPE_EXEC, TYPE_AUTH, -1}

InitCodec ==
  /\ config \in {c \in Configs : c.password = None}
  /\ SECRET = EmptyCell
  /\ HOOKS = EmptyCell
  /\ ID_COUNTER = 0
  /\ txBase = 0
  /\ pc = [w \in Workers |-> "idle"]
  /\ req = [w \in Workers |-> NoRequest]
  /\ resp = [w \in Workers |-> NoResponse]
  /\ name = [w \in Workers |-> <<>>]
  /\ secret = [w \in Workers |-> <<>>]
  /\ hooks = [w \in Workers |-> EmptyMap]
  /\ todo = [w \in Workers |-> <<>>]
  /\ lookup = [w \in Workers |-> NoLookup]
  /\ conn = [w \in Workers |-> NoConn]
  /\ tx = [w \in Workers |-> NoTx]
  /\ openConns = {}
  /\ accepted = 0
  /\ secretInits = 0
  /\ hooksInits = 0
  /\ lookups = 0
  /\ connsOpened = 0
  /\ issued = <<>>
  /\ \E i \in CodecIds, t \in CodecTypes, p \in Payloads :
       codec = [phase |-> "in", id |-> i, type |-> t, payload |-> p,
                wire |-> Err(""), out |-> Err("")]

CodecSerialize ==
  /\ codec.phase = "in"
  /\ codec' = [codec EXCEPT !.phase = "wire",
                            !.wire = Serialize(codec.id, codec.type, codec.payload)]
  /\ UNCHANGED <<shared, pc, request, once, rcon, accepted>>

CodecDeserialize ==
  /\ codec.phase = "wire"
  /\ codec.wire.ok
  /\ codec' = [codec EXCEPT !.phase = "out", !.out = Deserialize(codec.wire.value)]
  /\ UNCHANGED <<shared, pc, request, once, rcon, accepted>>

NextCodec == CodecSerialize \/ CodecDeserialize

SpecCodec == InitCodec /\ [][NextCodec]_vars

(***************************************************************************)
(* The read half of transaction, on responses drawn from bounded sets:    *)
(* every declared length around the metadata size, with the id of the      *)
(* request or another one, any type, body and terminator.                  *)
(***************************************************************************)
\* The longest body of a response (but for the one of maximal length).
MaxBodyLen == 2

\* Bytes the bodies are made of: "a", and the two bytes of U+00E9 (which
\* alone or in the wrong order are not UTF-8).
RecvBytes == {97, 195, 169}
RecvBodies == UNION {[1..n -> RecvBytes] : n \in 0..MaxBodyLen}

\* The declared lengths: -1, 0 .. 9, 10 and what the bodies need, one more,
\* and 4111.
RecvSizes == ((-1)..(META_SIZE + MaxBodyLen + 1)) \cup {SIZE_MAX + 1}
RecvTypes == {0, TYPE_EXEC, 77}
\* The bytes after the body: two NUL bytes, two other bytes, one, none.
RecvTerms == {<<0, 0>>, <<1, 2>>, <<0>>, <<>>}
\* The ids of the requests.
RecvIds == {5, -1}

\* The body of a response of the maximal length: 4100 times "a".
FullBody == [i \in 1..(SIZE_MAX - META_SIZE) |-> 97]

\* What the server sends in answer to the request with the given id.
RecvSent(id) ==
  {[size |-> s, id |-> i, type |-> t, body |-> b, term |-> e] :
     s \in RecvSizes, i \in {id, WrapAdd1(id)}, t \in RecvTypes,
     b \in RecvBodies, e \in RecvTerms}
  \cup
  {[size |-> SIZE_MAX, id |-> i, type |-> 0, body |-> FullBody, term |-> e] :
     i \in {id, WrapAdd1(id)}, e \in {<<0, 0>>, <<1, 2>>, <<0>>}}

InitRecv ==
  /\ config \in {c \in Configs : c.password = None}
  /\ SECRET = EmptyCell
  /\ HOOKS = EmptyCell
  /\ ID_COUNTER = 0
  /\ txBase = 0
  /\ pc = [w \in Workers |-> "idle"]
  /\ req = [w \in Workers |-> NoRequest]
  /\ resp = [w \in Workers |-> NoResponse]
  /\ name = [w \in Workers |-> <<>>]
  /\ secret = [w \in Workers |-> <<>>]
  /\ hooks = [w \in Workers |-> EmptyMap]
  /\ todo = [w \in Workers |-> <<>>]
  /\ lookup = [w \in Workers |-> NoLookup]
  /\ conn = [w \in Workers |-> NoConn]
  /\ tx = [w \in Workers |-> NoTx]
  /\ openConns = {}
  /\ accepted = 0
  /\ secretInits = 0
  /\ hooksInits = 0
  /\ lookups = 0
  /\ connsOpened = 0
  /\ issued = <<>>
  /\ \E i \in RecvIds, t \in {TYPE_AUTH, TYPE_EXEC} : \E m \in RecvSent(i) :
       codec = [phase |-> "rx", id |-> i, type_ |-> t, sent |-> m,
                rx |-> Wire(m.size, m.id, m.type, m.body, m.term), out |-> <<>>]

\* transaction from the read of the size field on.
CodecReceive ==
  /\ codec.phase = "rx"
  /\ codec' = [codec EXCEPT !.phase = "done", !.out = Receive(codec.id, codec.rx)]
  /\ UNCHANGED <<shared, pc, request, once, rcon, accepted>>

NextRecv == CodecReceive

SpecRecv == InitRecv /\ [][NextRecv]_vars

(***************************************************************************)
(* Payloads that serialize cannot frame: a password or a command of more  *)
(* than i32::MAX - 10 bytes, in a transaction and in serialize alone.      *)
(***************************************************************************)
\* The shortest string serialize fails on (i32::MAX - 9 bytes).
LongStr == Long((I32Max - META_SIZE) + 1)

\* Configurations with the webhook "restart", in which the password, the
\* command, both or none are too long.
BigConfigs ==
  {[password |-> p, hooks |-> [n \in {NameRestart} |-> c]] :
     p \in {None, Some(Password), Some(LongStr)}, c \in {CmdStop, LongStr}}

\* The payloads serialize is applied to: the empty one, "stop", and strings
\* of i32::MAX - 11, i32::MAX - 10, i32::MAX - 9 and i32::MAX bytes.
BigPayloads ==
  {<<>>, CmdStop, Long((I32Max - META_SIZE) - 1), Long(I32Max - META_SIZE),
   LongStr, Long(I32Max)}

InitBig ==
  /\ config \in BigConfigs
  /\ SECRET = EmptyCell
  /\ HOOKS = EmptyCell
  /\ ID_COUNTER \in FewStartIds
  /\ txBase = ID_COUNTER
  /\ pc = [w \in Workers |-> "idle"]
  /\ req = [w \in Workers |-> NoRequest]
  /\ resp = [w \in Workers |-> NoResponse]
  /\ name = [w \in Workers |-> <<>>]
  /\ secret = [w \in Workers |-> <<>>]
  /\ hooks = [w \in Workers |-> EmptyMap]
  /\ todo = [w \in Workers |-> <<>>]
  /\ lookup = [w \in Workers |-> NoLookup]
  /\ conn = [w \in Workers |-> NoConn]
  /\ tx = [w \in Workers |-> NoTx]
  /\ openConns = {}
  /\ accepted = 0
  /\ secretInits = 0
  /\ hooksInits = 0
  /\ lookups = 0
  /\ connsOpened = 0
  /\ issued = <<>>
  /\ \E p \in BigPayloads, t \in {TYPE_AUTH, TYPE_EXEC} :
       codec = [phase |-> "in", id |-> 1, type |-> t, payload |-> p,
                wire |-> Err(""), out |-> Err("")]

\* One worker serves POST /api/restart; serialize is applied to a payload.
NextBig ==
  \/ Step({1}, {[method |-> POST, target |-> API_PREFIX \o NameRestart]},
          FewReplyKinds)
  \/ CodecSerialize

SpecBig == InitBig /\ [][NextBig]_vars

(***************************************************************************)
(* The properties.                                                         *)
(***************************************************************************)
InExec == {"new", "tx_send", "tx_recv", "cmd"}

\* A worker has answered the request in req.
Answered(w) == pc[w] = "idle" /\ req[w] # NoRequest

\* C1: every request whose target starts with /api/ and whose method is
\* not POST is answered 405 Method Not Allowed with an empty body.
C1_NonPostApiIs405 ==
  \A w \in Workers :
    (/\ Answered(w)
     /\ StartsWith(req[w].target, API_PREFIX)
     /\ req[w].method # POST)
    => resp[w] = Response405

\* C2: (the hash being injective, as it is in this model) lookup_any
\* returns the configured command for every configured name and None for
\* every other name, whatever was looked up before.
C2_LookupCorrect ==
  \A w \in Workers :
    lookup[w].done =>
      lookup[w].result = IF name[w] \in DOMAIN config.hooks
                           THEN Some(config.hooks[name[w]])
                           ELSE None

\* A configured name has been resolved to its command by the second call
\* of lookup_any.
C2_Witness ==
  \E w \in Workers :
    /\ lookups = 2
    /\ lookup[w].done /\ name[w] = NameLs /\ lookup[w].result = Some(CmdList)

\* t is the complete table of a configuration under the secret s: its
\* keys are the digests of the configured names with s, each with the
\* command of its name.
IsFullTable(t, cfg, s) ==
  /\ DOMAIN t = {Hash(n, s) : n \in DOMAIN cfg.hooks}
  /\ \A n \in DOMAIN cfg.hooks : t[Hash(n, s)] = cfg.hooks[n]

\* C3: under concurrent first calls the secret and the table are each
\* constructed once, every key of the table is hashed with that secret, and
\* every caller looks its name up in the complete table with that secret.
C3_InitOnce ==
  /\ secretInits <= 1
  /\ hooksInits <= 1
  /\ SECRET.state = "set" => secretInits = 1
  /\ HOOKS.state = "set" =>
       /\ hooksInits = 1
       /\ SECRET.state = "set"
       /\ IsFullTable(HOOKS.value, config, SECRET.value)
  /\ \A w \in Workers :
       /\ pc[w] \in {"hooks", "hooks_init", "lookup"} => secret[w] = SECRET.value
       /\ pc[w] = "lookup" => HOOKS.state = "set"

\* One caller is filling the table (one entry in, one to go) while another
\* caller, which has the secret, waits for the table.
C3_Witness ==
  \E a, b \in Workers :
    /\ a # b
    /\ pc[a] = "hooks_init" /\ Len(todo[a]) = 1 /\ hooks[a] # EmptyMap
    /\ pc[b] = "hooks"

\* C4: a transaction returns a payload only if the id of the response is
\* the id of its request; a well-formed response with another id makes it
\* return an error and no payload.
C4_IdCorrelation ==
  \A w \in Workers :
    /\ tx[w].state = "ok" => tx[w].payload # None /\ tx[w].respId = Some(tx[w].id)
    /\ tx[w].payload # None => tx[w].state = "ok"
    /\ (tx[w].respId # None /\ tx[w].respId # Some(tx[w].id)) =>
         tx[w].state = "err" /\ tx[w].payload = None

\* A well-formed response with another id has been rejected.
C4_Witness ==
  \E w \in Workers :
    /\ tx[w].respId = Some(WrapAdd1(tx[w].id))
    /\ tx[w].state = "err"
    /\ tx[w].error = "Invalid RCON response ID"

\* C5: when the server answers the authentication with the id -1 (its
\* refusal: a message of length 10 with an empty body), new returns an
\* error and the request is answered 500 with an empty body, whatever the
\* value of the id counter.
C5_AuthRefusedIs500 ==
  \A w \in Workers :
    (/\ tx[w].type = TYPE_AUTH
     /\ tx[w].respId = Some(-1)
     /\ tx[w].declared = Some(10)) =>
      /\ tx[w].state = "err"
      /\ pc[w] = "idle"
      /\ resp[w] = Response500

\* C6: with a password configured, a type-2 message is written to a
\* connection only after a type-3 transaction on it has returned Ok; when
\* the authentication fails, new returns the error: the request is
\* answered 500, the connection is closed and no command was written to it.
C6_CommandAfterAuth ==
  config.password # None =>
    \A w \in Workers :
      /\ \A i \in 1..Len(conn[w].writes) :
           conn[w].writes[i].type = TYPE_EXEC =>
             /\ conn[w].authed
             /\ i = 2
             /\ conn[w].writes[1].type = TYPE_AUTH
      /\ (tx[w].type = TYPE_AUTH /\ tx[w].state = "err") =>
           /\ pc[w] = "idle"
           /\ resp[w] = Response500
           /\ conn[w].cid \notin openConns
           /\ ~conn[w].authed
           /\ \A i \in 1..Len(conn[w].writes) : conn[w].writes[i].type # TYPE_EXEC

\* With a password configured, the command has been written after the
\* authentication.
C6_Witness ==
  /\ config.password # None
  /\ \E w \in Workers :
       /\ Len(conn[w].writes) = 2
       /\ conn[w].writes[2].type = TYPE_EXEC

\* C7: a declared length below 0 or above 4110 makes the transaction
\* return an error after the read of the 4 length bytes, with no further
\* read and no payload; a declared length of 4110 is read.
C7_SizeBound ==
  \A w \in Workers :
    tx[w].declared # None =>
      /\ (tx[w].declared[1] < 0 \/ tx[w].declared[1] > 4110) =>
           /\ tx[w].reads = 1
           /\ tx[w].state = "err"
           /\ tx[w].payload = None
      /\ (tx[w].declared[1] >= 0 /\ tx[w].declared[1] <= 4110) => tx[w].reads = 2

\* A transaction was refused for a declared length of 4111 after one read.
C7_Witness ==
  \E w \in Workers :
    /\ tx[w].declared = Some(4111) /\ tx[w].reads = 1 /\ tx[w].state = "err"
    /\ resp[w] = Response500

\* C8: deserialize(serialize(id, type, payload)) succeeds and returns
\* (id, type, payload), for the empty payload and payloads with NUL bytes
\* too.
C8_RoundTrip ==
  /\ codec.phase \in {"wire", "out"} => codec.wire.ok
  /\ codec.phase = "out" =>
       /\ codec.out.ok
       /\ codec.out.value =
            [id |-> codec.id, type |-> codec.type, body |-> codec.payload]

\* The round trip of a payload with a NUL byte and a two-byte character,
\* under a negative id.
C8_Witness ==
  /\ codec.phase = "out"
  /\ codec.payload = <<0, 195, 169>>
  /\ codec.id = I32Min
  /\ codec.out.ok

\* a + n in wrapping i32 arithmetic, for 0 <= n.
WrapSum(a, n) ==
  IF a > I32Max - n THEN I32Min + ((n - (I32Max - a)) - 1) ELSE a + n

\* The transactions the workers have started in this run.
TxStarted ==
  Cardinality({w \in Workers : tx[w].state # "none"})

\* C9: every transaction, failing or not, advances the id counter by one:
\* after n transactions the counter is its initial value plus n, wrapped to
\* i32, and no two transactions were given the same id.
C9_CounterAdvance ==
  /\ ID_COUNTER = WrapSum(txBase, Len(issued))
  /\ \A i \in 1..Len(issued) : issued[i] = WrapSum(txBase, i - 1)
  /\ \A i, j \in 1..Len(issued) : i # j => issued[i] # issued[j]
  /\ \A w \in Workers :
       tx[w].state # "none" => \E i \in 1..Len(issued) : issued[i] = tx[w].id
  /\ \A a, b \in Workers :
       (a # b /\ tx[a].state # "none" /\ tx[b].state # "none") => tx[a].id # tx[b].id
  /\ Len(issued) >= TxStarted

\* Two connections have transactions in flight, one of which failed later,
\* and the counter has wrapped from i32::MAX to i32::MIN.
C9_Witness ==
  /\ txBase = I32Max
  /\ Len(issued) = 3
  /\ ID_COUNTER = I32Min + 2
  /\ \E a, b \in Workers : a # b /\ tx[a].state = "err" /\ pc[b] = "tx_recv"

\* C10: a connection is closed when exec returns, on every path, and is
\* used by one request: the open connections are connections of distinct
\* workers that are inside exec.
C10_ConnectionsClosed ==
  /\ \A w \in Workers : pc[w] \notin InExec => conn[w].cid \notin openConns
  /\ \A c \in openConns : Cardinality({w \in Workers : conn[w].cid = c}) = 1
  /\ Cardinality(openConns) <= Cardinality({w \in Workers : pc[w] \in InExec})
  /\ \A a, b \in Workers : (a # b /\ conn[a].cid # 0) => conn[a].cid # conn[b].cid

\* One request has left exec after a failed authentication, its connection
\* closed, while another request holds an open connection.
C10_Witness ==
  \E a, b \in Workers :
    /\ pc[a] = "idle" /\ tx[a].type = TYPE_AUTH /\ tx[a].state = "err"
    /\ conn[a].cid # 0 /\ conn[a].cid \notin openConns
    /\ pc[b] = "tx_recv" /\ conn[b].cid \in openConns

\* C11: a POST to /api/<name> is answered in exactly one of three ways:
\* 404 with an empty body when the name does not resolve; 200 with
\* Content-Type text/plain and the reply text of the command's transaction
\* as body when exec succeeds; 500 with an empty body when exec fails.  No
\* response other than a 200 has a body.
C11_WebhookOutcomes ==
  \A w \in Workers :
    /\ (Answered(w) /\ resp[w].status # 200) => resp[w].body = <<>>
    /\ (Answered(w) /\ req[w].method = POST /\ StartsWith(req[w].target, API_PREFIX)) =>
         /\ lookup[w].done
         /\ IF lookup[w].result = None
              THEN /\ resp[w] = [status |-> 404, contentType |-> "", body |-> <<>>]
                   /\ tx[w].state = "none"
            ELSE IF tx[w].type = TYPE_EXEC /\ tx[w].state = "ok"
              THEN resp[w] = [status |-> 200, contentType |-> "text/plain",
                              body |-> tx[w].payload[1]]
            ELSE resp[w] = [status |-> 500, contentType |-> "", body |-> <<>>]

\* POST /api/restart has been answered 200 with the reply "ok" after an
\* authentication and the command.
C11_Witness ==
  \E w \in Workers :
    /\ Answered(w)
    /\ req[w] = [method |-> POST, target |-> API_PREFIX \o NameRestart]
    /\ conn[w].authed
    /\ resp[w] = [status |-> 200, contentType |-> "text/plain", body |-> ReplyOk]

\* C12: a worker that has entered exec leaves it again, with the reply or
\* an error, whatever the server does (it refuses the connection, answers
\* nothing, answers a part of a message), each connect, write and read
\* completing or running into its timeout.
C12_ExecReturns ==
  \A w \in Workers : (pc[w] \in InExec) ~> (pc[w] = "idle")

\* exec has returned an error for a server that answered nothing: the read
\* of the length bytes ran into the timeout.
C12_Witness ==
  \E w \in Workers :
    /\ pc[w] = "idle"
    /\ tx[w].state = "err" /\ tx[w].error = "I/O error"
    /\ tx[w].reads = 1 /\ tx[w].declared = None
    /\ resp[w].status = 500

\* C13: once the table is constructed, no step changes the secret or the
\* table, also when later calls pass a configuration with other webhook
\* entries; every lookup returns what the table holds for the digest of
\* the name under the secret, hence the same result for the same name.
C13_TableFrozen ==
  [][/\ HOOKS.state = "set" => (HOOKS' = HOOKS /\ SECRET' = SECRET)
     /\ \A w \in Workers :
          (lookup'[w].done /\ ~lookup[w].done) =>
            /\ HOOKS'.state = "set"
            /\ lookup'[w].result = Get(HOOKS'.value, Hash(name'[w], SECRET'.value))]_vars

\* A later call that passes a configuration in which "restart" has the
\* command "list" has returned "stop", the command of the table.
C13_Witness ==
  \E w \in Workers :
    /\ lookups >= 2
    /\ config.hooks = OtherHooks
    /\ lookup[w].done /\ name[w] = NameRestart /\ lookup[w].result = Some(CmdStop)

\* C14: a response that declares a length in 0..9 makes the transaction
\* return an error and no payload, whatever bytes follow the length and
\* whether the id is the one of the request or not.
C14_ShortLengthIsError ==
  (/\ codec.phase = "done"
   /\ codec.sent.size >= 0
   /\ codec.sent.size <= 9) =>
    /\ ~codec.out.result.ok
    /\ codec.out.declared = Some(codec.sent.size)

\* A response of declared length 9 with the id of the request, all of its
\* bytes delivered, was rejected by deserialize for its size field.
C14_Witness ==
  /\ codec.phase = "done"
  /\ codec.sent.size = 9 /\ codec.sent.id = codec.id
  /\ codec.out.reads = 2
  /\ codec.out.buffer # None
  /\ codec.out.result = Err("Invalid size field in RCON message")

\* The payload of the transaction a worker is in (or was in last).
TxPayload(w) ==
  IF tx[w].type = TYPE_AUTH THEN config.password[1] ELSE lookup[w].result[1]

\* C15: serialize fails exactly when the length of the payload plus 10 is
\* above i32::MAX, and puts the length of the payload plus 10 into the
\* length field otherwise; a transaction whose serialize fails has taken
\* its id from the counter, has written nothing to the connection and has
\* read nothing from it.
C15_SerializeSize ==
  /\ codec.phase = "wire" =>
       /\ codec.wire.ok <=> StrLen(codec.payload) <= I32Max - 10
       /\ codec.wire.ok =>
            FromLeBytes(SubSeq(codec.wire.value, 1, 4)) = StrLen(codec.payload) + 10
  /\ \A w \in Workers :
       (tx[w].state # "none" /\ StrLen(TxPayload(w)) > I32Max - 10) =>
         /\ tx[w].state = "err"
         /\ tx[w].error = "integer conversion error"
         /\ tx[w].reads = 0
         /\ \A i \in 1..Len(conn[w].writes) : conn[w].writes[i].id # tx[w].id
         /\ issued # <<>> /\ issued[Len(issued)] = tx[w].id
         /\ ID_COUNTER = WrapAdd1(tx[w].id)
         /\ pc[w] = "idle" /\ resp[w].status = 500

\* After the authentication the command, too long to be framed, made
\* serialize fail: the second id is taken, the one message written is the
\* authentication's.
C15_Witness ==
  \E w \in Workers :
    /\ tx[w].type = TYPE_EXEC
    /\ tx[w].error = "integer conversion error"
    /\ Len(issued) = 2
    /\ Len(conn[w].writes) = 1 /\ conn[w].writes[1].type = TYPE_AUTH
    /\ codec.phase = "wire" /\ codec.payload = Long(I32Max - META_SIZE)
    /\ codec.wire.ok

\* A request resolves to a configured command: a POST to /api/<name> with
\* a configured name.
Resolves(r) ==
  /\ r.method = POST
  /\ StartsWith(r.target, API_PREFIX)
  /\ StripPrefix(r.target, API_PREFIX)[1] \in DOMAIN config.hooks

\* C16: a request that does not resolve to a configured command (answered
\* 404 by webhook or by the default route, also for a wrong method) opens
\* no connection, writes no message and does not touch the id counter: the
\* worker that answered it has no connection and no transaction, and every
\* step that opens or closes a connection, writes a message or changes the
\* counter is a step inside exec of a worker whose request resolves.
C16_UnresolvedHasNoEffect ==
  /\ [](\A w \in Workers :
         (req[w] # NoRequest /\ ~Resolves(req[w])) =>
           /\ pc[w] \notin InExec
           /\ conn[w] = NoConn
           /\ tx[w] = NoTx
           /\ Answered(w) => resp[w].status \in {404, 405, 200} /\ resp[w] # NoResponse)
  /\ [][(\/ ID_COUNTER' # ID_COUNTER
         \/ connsOpened' # connsOpened
         \/ openConns' # openConns
         \/ issued' # issued
         \/ \E w \in Workers :
              conn'[w].writes # conn[w].writes /\ conn'[w].writes # <<>>)
        => \E w \in Workers :
             /\ pc[w] \in InExec
             /\ pc'[w] # pc[w]
             /\ Resolves(req[w])]_vars

\* After a request that ran a command, POST /api/nope has been answered 404
\* without a connection or a transaction.
C16_Witness ==
  \E w \in Workers :
    /\ Answered(w)
    /\ req[w] = [method |-> POST, target |-> API_PREFIX \o NameNope]
    /\ resp[w].status = 404
    /\ conn[w] = NoConn /\ tx[w] = NoTx
    /\ issued # <<>> /\ ID_COUNTER = WrapAdd1(issued[Len(issued)])

\* The bytes t with every byte set to NUL.
Zeroed(t) == [i \in 1..Len(t) |-> 0]

\* C17: the outcome of a transaction, for the authentication and for a
\* command, is the outcome for the same response with the type 0 and NUL
\* bytes after the body: neither field is looked at.  A response with the
\* id of the request, a UTF-8 body and the length of its body plus 10 is
\* accepted and its body returned, whatever its type and last two bytes.
C17_TypeAndTerminatorIgnored ==
  codec.phase = "done" =>
    /\ codec.out.result =
         Receive(codec.id,
                 Wire(codec.sent.size, codec.sent.id, 0, codec.sent.body,
                      Zeroed(codec.sent.term))).result
    /\ (/\ codec.sent.id = codec.id
        /\ codec.sent.size = Len(codec.sent.body) + META_SIZE
        /\ Len(codec.sent.term) = 2
        /\ IsUtf8(codec.sent.body)) => codec.out.result = Ok(codec.sent.body)

\* The authentication has accepted a response of type 77 that ends in the
\* bytes 1 and 2.
C17_Witness ==
  /\ codec.phase = "done"
  /\ codec.type_ = TYPE_AUTH
  /\ codec.sent.type = 77 /\ codec.sent.term = <<1, 2>>
  /\ codec.sent.body = <<195, 169>>
  /\ codec.out.result = Ok(<<195, 169>>)

\* C18: route calls webhook only with a target that starts with /api/, so
\* that the expect on strip_prefix in webhook does not panic, for every
\* method and target.
C18_PrefixNeverPanics ==
  \A w \in Workers :
    /\ pc[w] # "panicked"
    /\ (req[w] # NoRequest /\ RouteArm(req[w]) = "webhook") =>
         /\ StartsWith(req[w].target, API_PREFIX)
         /\ StripPrefix(req[w].target, API_PREFIX) # None
         /\ WebhookHead(req[w]).arm # "panic"

\* POST /api/ has gone through webhook with the empty name and was
\* answered 404.
C18_Witness ==
  \E w \in Workers :
    /\ Answered(w)
    /\ req[w] = [method |-> POST, target |-> API_PREFIX]
    /\ lookup[w].done /\ name[w] = <<>>
    /\ resp[w].status = 404

\* C19: the buffer transaction passes to deserialize has 4 + declared
\* length bytes and starts with the length bytes as received; for a
\* declared length in 10..4110 deserialize then reports neither a truncated
\* header nor a truncated body, and a transaction that fails after its two
\* reads fails for a body that is not UTF-8 or for the id.
C19_BufferExact ==
  codec.phase = "done" =>
    /\ (codec.out.reads = 2 /\ codec.out.result # Err("I/O error")) =>
         codec.out.buffer # None
    /\ codec.out.buffer # None =>
         /\ codec.out.declared # None
         /\ Len(codec.out.buffer[1]) = 4 + codec.out.declared[1]
         /\ SubSeq(codec.out.buffer[1], 1, 4) = SubSeq(codec.rx, 1, 4)
         /\ FromLeBytes(SubSeq(codec.out.buffer[1], 1, 4)) = codec.out.declared[1]
         /\ (codec.out.declared[1] >= 10 /\ codec.out.declared[1] <= 4110) =>
              /\ Deserialize(codec.out.buffer[1]).ok
                   \/ Deserialize(codec.out.buffer[1]) = Err("UTF-8 decoding error")
              /\ \/ codec.out.result.ok
                 \/ codec.out.result = Err("UTF-8 decoding error")
                 \/ codec.out.result = Err("Invalid RCON response ID")

\* A response of the declared length 4110 was read into a buffer of 4114
\* bytes and its body of 4100 bytes returned.
C19_Witness ==
  /\ codec.phase = "done"
  /\ codec.out.declared = Some(SIZE_MAX)
  /\ codec.out.buffer # None
  /\ Len(codec.out.buffer[1]) = 4114
  /\ codec.out.result = Ok(FullBody)

====
